---- MODULE Spec2Model ----
(***************************************************************************)
(* talk-with-site: the Content Extractor (scraperService.scrapeWebsite),   *)
(* the Search Orchestrator (UrlInput.handleTopicSearch), the Conversation  *)
(* View (ChatInterface.handleSendMessage) and the Inference Client         *)
(* (aiService), as state machines.                                         *)
(*                                                                         *)
(* Strings.  A string is a sequence of fragments.  Text the program looks  *)
(* into character by character (URLs, page text, typed input) is a         *)
(* sequence of one-character fragments; a string literal of the source is  *)
(* one fragment holding the literal.  Concatenation is \o, the empty       *)
(* string is <<>>, and a string is falsy exactly when it is <<>>.          *)
(* null / undefined is Null, a present value x is Some(x).                 *)
(***************************************************************************)
EXTENDS Integers, Sequences, FiniteSets, TLC

VARIABLES
  now,            \* Date.now(), a non-decreasing millisecond clock
  \* ---- scraperService.scrapeWebsite, one call
  scrapePc,       \* "idle" | "fetch" | "json" | "done"
  scrapeUrl,      \* the argument url
  scrapeRequest,  \* Null | Some(the URL handed to fetch)
  scrapeResponse, \* the proxy's behaviour once fetch has settled
  scrapeResult,   \* Null | Some(ScrapeResult)
  \* ---- UrlInput: topic search
  uiVariant,        \* which UrlInput of the sources is mounted: "A" | "B"
  svcVariant,       \* which aiService it imports: "object" | "array"
  topic,            \* useState('')
  isSearchingTopic, \* useState(false)
  loadingStatus,    \* useState('')
  searchResults,    \* useState(null): Null | Some(list of SearchResultItem)
  searchError,      \* useState(null): Null | Some(message)
  searchPc,         \* handleTopicSearch: "idle" | "search" | "verify"
  searchResponse,   \* what the search API did, once searchWebsites has settled
  rawResults,       \* const rawResults
  uniqueResults,    \* const uniqueResults
  verification,     \* verificationPromises, one slot per unique candidate
  outOfOrder,       \* some check settled before the check of an earlier candidate
  \* ---- ChatInterface, mounted with one websiteData
  websiteData,    \* the prop: WebsiteData
  chatMounted,    \* the effect that sets the greeting has run
  messages,       \* useState([])
  inputValue,     \* useState('')
  isProcessing,   \* useState(false)
  chatRequests,   \* the requests getChatResponse has sent and not yet seen settle
  \* ---- the inference client, called directly
  chatSession,    \* GeminiChatService.chatSession: Null | Some(the chat's history)
  clientCall,     \* Null | Some(the call in progress, or the last one made)
  clientRequest,  \* Null | Some(the request awaiting the API)
  clientOutcome,  \* Null | Some(what the API did and what the caller got)
  \* ---- App, with UrlInput's URL form
  appState,       \* useState(AppState.IDLE)
  errorMessage,   \* useState(undefined): Null | Some(message)
  inputUrl,       \* UrlInput: useState('')
  appScrapes,     \* the urls of the handleUrlSubmit calls awaiting scrapeWebsite
  submittedFrom   \* history: the appState in which handleUrlSubmit was last called

scrapeVars == <<scrapePc, scrapeUrl, scrapeRequest, scrapeResponse, scrapeResult>>

searchVars ==
  <<uiVariant, svcVariant, topic, isSearchingTopic, loadingStatus, searchResults,
    searchError, searchPc, searchResponse, rawResults, uniqueResults, verification,
    outOfOrder>>

chatVars == <<websiteData, chatMounted, messages, inputValue, isProcessing, chatRequests>>

clientVars == <<chatSession, clientCall, clientRequest, clientOutcome>>

appVars == <<appState, errorMessage, inputUrl, appScrapes, submittedFrom>>

vars == <<now, scrapeVars, searchVars, chatVars, clientVars, appVars>>

\* ------------------------------------------------------------------ bounds
MaxClock == 2
MaxNodes == 2
MaxCandidates == 3
MaxTurns == 2
MaxTranscript == 2
MaxScrapes == 2

\* ----------------------------------------------------------- basic values
Null == <<>>
Some(x) == <<x>>

RECURSIVE Flatten(_)
Flatten(ss) == IF ss = <<>> THEN <<>> ELSE Head(ss) \o Flatten(Tail(ss))

X(n) == [i \in 1..n |-> "x"]

\* ------------------------------------------------- JavaScript string methods
IsSpace(c) == c \in {" ", "\n", "\t"}

\* The indexes of s that Keep accepts, ascending.
Indexes(s) == [i \in 1..Len(s) |-> i]

\* s.trim(): from the first to the last character that is not whitespace.
trim(s) ==
  IF \A i \in 1..Len(s) : IsSpace(s[i]) THEN <<>>
  ELSE SubSeq(s,
              CHOOSE i \in 1..Len(s) :
                ~IsSpace(s[i]) /\ \A j \in 1..(i - 1) : IsSpace(s[j]),
              CHOOSE i \in 1..Len(s) :
                ~IsSpace(s[i]) /\ \A j \in (i + 1)..Len(s) : IsSpace(s[j]))

startsWith(s, p) == Len(s) >= Len(p) /\ SubSeq(s, 1, Len(p)) = p

\* s.replace(/\s+/g, ' '): every maximal run of whitespace becomes one space
\* (the first character of the run stays, as a space; the others go).
collapseWhitespace(s) ==
  LET Keep(i) == ~IsSpace(s[i]) \/ i = 1 \/ ~IsSpace(s[i - 1])
      kept == SelectSeq(Indexes(s), Keep)
  IN [k \in 1..Len(kept) |-> IF IsSpace(s[kept[k]]) THEN " " ELSE s[kept[k]]]

\* s.replace(/\n\s*\n/g, '\n').  A match starts at the first newline of a run of
\* whitespace that holds two or more and, \s* being greedy, ends at the last
\* newline of that run; it is replaced by one newline.  So a character goes
\* exactly when it lies after a newline and not after another newline of its
\* own run of whitespace.
removeEmptyLines(s) ==
  LET Swallowed(i) ==
        /\ IsSpace(s[i])
        /\ \E j \in 1..(i - 1), k \in i..Len(s) :
             /\ s[j] = "\n"
             /\ s[k] = "\n"
             /\ \A m \in j..k : IsSpace(s[m])
      Keep(i) == ~Swallowed(i)
      kept == SelectSeq(Indexes(s), Keep)
  IN [k \in 1..Len(kept) |-> s[kept[k]]]

\* encodeURIComponent on the characters the model's URLs use.
encodeChar(c) ==
  CASE c = ":" -> <<"%", "3", "A">>
    [] c = "/" -> <<"%", "2", "F">>
    [] c = " " -> <<"%", "2", "0">>
    [] OTHER -> <<c>>

encodeURIComponent(s) == Flatten([i \in 1..Len(s) |-> encodeChar(s[i])])

\* ------------------------------------------------- scraperService constants
PROXY_URL == <<"https://api.allorigins.win/get?url=">>
MinContentLength == 50
NoContentMessage == <<"No content received from proxy">>
InsufficientContentMessage ==
  <<"Could not extract meaningful text content. The site might be SPA-only or blocking scrapers.">>
ScrapeFallbackMessage ==
  <<"Failed to scrape website. Please try a different URL or paste content manually.">>
RemovedTags ==
  {"script", "style", "iframe", "noscript", "nav", "footer", "header", "svg"}

\* ------------------------------------------------------ scrapeWebsite steps
\* let targetUrl = url; if (!targetUrl.startsWith('http')) targetUrl = `https://${targetUrl}`
targetUrlOf(url) ==
  IF ~startsWith(url, <<"h", "t", "t", "p">>)
  THEN <<"h", "t", "t", "p", "s", ":", "/", "/">> \o url
  ELSE url

\* fetch(`${PROXY_URL}${encodeURIComponent(targetUrl)}`)
proxyRequest(targetUrl) == PROXY_URL \o encodeURIComponent(targetUrl)

\* querySelectorAll('script, style, ...').forEach(remove); doc.body.textContent || ''
bodyTextContent(doc) ==
  Flatten([i \in 1..Len(doc.body) |->
             IF doc.body[i].tag \in RemovedTags THEN <<>> ELSE doc.body[i].text])

\* content.replace(/\s+/g, ' ').replace(/\n\s*\n/g, '\n').trim()
cleanWhitespace(content) == trim(removeEmptyLines(collapseWhitespace(content)))

\* Mutants of tooShort: the comparison off by one, either way.
tooShortInclusive(content) == Len(content) <= MinContentLength
tooShortLenient(content) == Len(content) < MinContentLength - 1

\* content.length < 50
tooShort(content) == Len(content) < MinContentLength

\* const title = doc.title || targetUrl
titleOf(doc, targetUrl) == IF doc.title # <<>> THEN doc.title ELSE targetUrl

Success(data) == [success |-> TRUE, data |-> Some(data), error |-> Null]

\* Mutant of catchError: the '||' fallback forgotten.
catchErrorNoFallback(message) ==
  [success |-> FALSE, data |-> Null, error |-> Some(message)]

\* catch (error) { return { success: false, error: error.message || '...' } }
catchError(message) ==
  [success |-> FALSE, data |-> Null,
   error |-> Some(IF message # <<>> THEN message ELSE ScrapeFallbackMessage)]

\* Lines 27-56: the page was received (data.contents is truthy).
extract(targetUrl, doc, clock) ==
  LET content == cleanWhitespace(bodyTextContent(doc))
  IN IF tooShort(content)
     THEN catchError(InsufficientContentMessage)
     ELSE Success([url |-> targetUrl, title |-> titleOf(doc, targetUrl),
                   content |-> content, timestamp |-> clock])

\* Lines 21-56: response.json() has settled with the behaviour r.
afterJson(targetUrl, r, clock) ==
  CASE r.kind \in {"badJson", "nullJson"} -> catchError(r.text)
    [] r.kind \in {"noContents", "emptyContents"} -> catchError(NoContentMessage)
    [] OTHER -> extract(targetUrl, r.doc, clock)

\* Lines 15-19: fetch has settled with the behaviour r; Null while the function
\* goes on to await response.json().
afterFetch(r) ==
  CASE r.kind = "networkError" -> Some(catchError(r.text))
    [] r.kind = "notOk" -> Some(catchError(<<"Failed to fetch: ">> \o r.text))
    [] OTHER -> Null

\* scrapeWebsite(url) against a proxy that behaves as r, at time clock.
scrapeWebsite(url, r, clock) ==
  IF afterFetch(r) # Null THEN afterFetch(r)[1]
  ELSE afterJson(targetUrlOf(url), r, clock)

\* checkScrapability: (await scrapeWebsite(url)).success
checkScrapability(url, r, clock) == scrapeWebsite(url, r, clock).success

\* ------------------------------------------------------ what the proxy does
EmptyDoc == [title |-> <<>>, body |-> <<>>]

Texts ==
  { <<>>,
    <<" ", "\n">>,
    X(MinContentLength),
    X(MinContentLength - 1),
    X(MinContentLength - 2) \o <<" ", "\n", " ">> \o X(1),
    <<"\n">> \o X(MinContentLength - 1) \o <<" ">> }

Nodes == [tag : {"p", "script"}, text : Texts]

RECURSIVE SeqsUpTo(_, _)
SeqsUpTo(S, n) ==
  IF n = 0 THEN {<<>>}
  ELSE LET shorter == SeqsUpTo(S, n - 1)
       IN shorter \cup {Append(q, x) : q \in shorter, x \in S}

Docs == [title : {<<>>, <<"T">>}, body : SeqsUpTo(Nodes, MaxNodes)]

ProxyFailures ==
  { [kind |-> "networkError", text |-> <<"Failed to fetch">>, doc |-> EmptyDoc],
    [kind |-> "networkError", text |-> <<>>, doc |-> EmptyDoc],
    [kind |-> "notOk", text |-> <<"Not Found">>, doc |-> EmptyDoc],
    [kind |-> "notOk", text |-> <<>>, doc |-> EmptyDoc],
    [kind |-> "badJson", text |-> <<"Unexpected token < in JSON at position 0">>,
     doc |-> EmptyDoc],
    [kind |-> "nullJson", text |-> <<"Cannot read properties of null (reading 'contents')">>,
     doc |-> EmptyDoc],
    [kind |-> "noContents", text |-> <<>>, doc |-> EmptyDoc],
    [kind |-> "emptyContents", text |-> <<>>, doc |-> EmptyDoc] }

ProxyBehaviours ==
  ProxyFailures \cup {[kind |-> "html", text |-> <<>>, doc |-> d] : d \in Docs}

NoResponse == [kind |-> "pending", text |-> <<>>, doc |-> EmptyDoc]

Urls ==
  { <<"h", "t", "t", "p", ":", "/", "/", "a">>,
    <<"h", "t", "t", "p", "s", ":", "/", "/", "a", "/">>,
    <<"a", ".", "c", "o", "m">>,
    <<"h", "t", "t", "p", "b", "i", "n">> }

\* ------------------------------------------------- aiService.searchWebsites
UpperCase == <<"A", "B", "C", "H", "M", "O", "P", "T">>
LowerCase == <<"a", "b", "c", "h", "m", "o", "p", "t">>

toLowerCase(s) ==
  [i \in 1..Len(s) |->
     IF \E k \in 1..Len(UpperCase) : UpperCase[k] = s[i]
     THEN LowerCase[CHOOSE k \in 1..Len(UpperCase) : UpperCase[k] = s[i]]
     ELSE s[i]]

Returned(list) == [threw |-> FALSE, message |-> <<>>, value |-> list]
Thrown(msg) == [threw |-> TRUE, message |-> msg, value |-> <<>>]

\* A parse failure answered with [] instead of an error.
searchWebsitesObjectLenient(resp) ==
  CASE resp.kind \in {"apiError", "noText"} ->
         Thrown(<<"Failed to find sources. The AI may be unavailable or the topic too restrictive.">>)
    [] resp.kind = "object" -> Returned(resp.items)
    [] OTHER -> Returned(<<>>)

\* services/aiService.ts: the response is an object with a websites array; any
\* failure inside the try, a parse failure included, is wrapped and re-thrown.
searchWebsitesObject(resp) ==
  CASE resp.kind \in {"apiError", "noText", "badJson", "nullJson"} ->
         Thrown(<<"Failed to find sources. The AI may be unavailable or the topic too restrictive.">>)
    [] resp.kind = "object" -> Returned(resp.items)
    [] OTHER -> Returned(<<>>)

\* The aiService with Google Search grounding: the response is a bare array; a
\* missing text or a parse failure gives [], an API failure is wrapped.
searchWebsitesArray(resp) ==
  CASE resp.kind = "apiError" ->
         Thrown(<<"Failed to search for websites. Please try again.">>)
    [] resp.kind \in {"array", "object"} -> Returned(resp.items)
    [] OTHER -> Returned(<<>>)

searchWebsites(svc, resp) ==
  IF svc = "object" THEN searchWebsitesObject(resp) ELSE searchWebsitesArray(resp)

\* ------------------------------------------------ UrlInput.handleTopicSearch
SearchingStatus(ui) ==
  IF ui = "A" THEN <<"Searching for websites...">> ELSE <<"Curating sources...">>
VerifyingStatus(ui) ==
  IF ui = "A" THEN <<"Verifying access to content...">> ELSE <<"Verifying access...">>
InaccessibleMessage(ui) ==
  IF ui = "A"
  THEN <<"Found websites matching your topic, but was unable to automatically access their content (they may be protected or require login). Please try a more general topic.">>
  ELSE <<"Found sources, but they are protected. Try a more general inquiry.">>
\* Mutant of NoCandidatesMessage: the other branch's text pasted.
NoCandidatesMessagePasted(ui) == InaccessibleMessage(ui)

NoCandidatesMessage(ui) ==
  IF ui = "A" THEN <<"No relevant websites found. Try a different topic.">>
  ELSE <<"No relevant journals or sites found. Try a different topic.">>
SearchFallbackMessage(ui) ==
  IF ui = "A" THEN <<"Failed to search for websites. Please try again.">>
  ELSE <<"Search unavailable at the moment.">>

\* s.replace(/\/$/, ''): one trailing slash goes.
stripTrailingSlash(s) ==
  IF s # <<>> /\ s[Len(s)] = "/" THEN SubSeq(s, 1, Len(s) - 1) ELSE s

\* const normalized = item.url.trim().toLowerCase().replace(/\/$/, '')
normalized(url) == stripTrailingSlash(toLowerCase(trim(url)))

\* Mutant of dedupeStep: seenUrls.add forgotten, so nothing is ever seen.
dedupeStepNeverSeen(acc, item) ==
  [seenUrls |-> acc.seenUrls, uniqueResults |-> Append(acc.uniqueResults, item)]

\* if (!seenUrls.has(normalized)) { seenUrls.add(normalized); uniqueResults.push(item) }
dedupeStep(acc, item) ==
  IF normalized(item.url) \notin acc.seenUrls
  THEN [seenUrls |-> acc.seenUrls \cup {normalized(item.url)},
        uniqueResults |-> Append(acc.uniqueResults, item)]
  ELSE acc

\* for (const item of rawResults) { ... }
RECURSIVE dedupeLoop(_, _)
dedupeLoop(acc, rest) ==
  IF rest = <<>> THEN acc ELSE dedupeLoop(dedupeStep(acc, Head(rest)), Tail(rest))

dedupe(raw) == dedupeLoop([seenUrls |-> {}, uniqueResults |-> <<>>], raw).uniqueResults

\* A promise of verificationPromises: pending, or fulfilled with item or null.
PendingSlot == [settled |-> FALSE, isAccessible |-> FALSE, value |-> Null]

\* Mutant of fulfilled: the item is returned whatever the check said.
fulfilledAlways(item, isAccessible) ==
  [settled |-> TRUE, isAccessible |-> isAccessible, value |-> Some(item)]

\* return isAccessible ? item : null
fulfilled(item, isAccessible) ==
  [settled |-> TRUE, isAccessible |-> isAccessible,
   value |-> IF isAccessible THEN Some(item) ELSE Null]

\* (await Promise.all(verificationPromises)).filter(item => item !== null)
verifiedResultsOf(slots) ==
  LET present == SelectSeq(slots, LAMBDA p : p.value # Null)
  IN [k \in 1..Len(present) |-> present[k].value[1]]

\* ----------------------------------------------- what the search API returns
SearchUrls ==
  { <<"h", "t", "t", "p", ":", "/", "/", "a", ".", "c", "o", "m", "/">>,
    <<"H", "T", "T", "P", ":", "/", "/", "A", ".", "c", "o", "m">>,
    <<"h", "t", "t", "p", ":", "/", "/", "a", ".", "c", "o", "m">>,
    <<" ", "h", "t", "t", "p", ":", "/", "/", "a", ".", "c", "o", "m">>,
    <<"h", "t", "t", "p", ":", "/", "/", "a", ".", "c", "o", "m", "/", "/">>,
    <<"h", "t", "t", "p", ":", "/", "/", "b", ".", "c", "o", "m">> }

\* The candidates with these URLs; the title tells the positions apart.
itemsOf(urls) == [i \in 1..Len(urls) |-> [title |-> i, url |-> urls[i]]]

CandidateLists == {itemsOf(urls) : urls \in SeqsUpTo(SearchUrls, MaxCandidates)}

SearchResponses ==
  {[kind |-> k, items |-> <<>>] :
     k \in {"apiError", "noText", "badJson", "nullJson", "otherJson"}}
  \cup [kind : {"array", "object"}, items : CandidateLists]

NoSearchResponse == [kind |-> "pending", items |-> <<>>]

\* What the proxy may do to a verification request.
VerifyBehaviours ==
  { [kind |-> "html", text |-> <<>>,
     doc |-> [title |-> <<"T">>, body |-> <<[tag |-> "p", text |-> X(MinContentLength)]>>]],
    [kind |-> "html", text |-> <<>>,
     doc |-> [title |-> <<"T">>, body |-> <<[tag |-> "p", text |-> X(MinContentLength - 1)]>>]],
    [kind |-> "networkError", text |-> <<"Failed to fetch">>, doc |-> EmptyDoc] }

Topics == {<<" ">>, <<"c", "a", "t", "s">>}

SearchIdle ==
  /\ topic = <<>>
  /\ isSearchingTopic = FALSE
  /\ loadingStatus = <<>>
  /\ searchResults = Null
  /\ searchError = Null
  /\ searchPc = "idle"
  /\ searchResponse = NoSearchResponse
  /\ rawResults = <<>>
  /\ uniqueResults = <<>>
  /\ verification = <<>>
  /\ outOfOrder = FALSE

\* ------------------------------------------------ aiService.getChatResponse
ContextLimit == 100000

\* s.slice(0, n)
sliceTo(s, n) == SubSeq(s, 1, IF Len(s) < n THEN Len(s) ELSE n)

\* messages.slice(0, -1)
allButLast(s) == SubSeq(s, 1, Len(s) - 1)

Turn(role, text) == [role |-> role, text |-> text]

\* services/aiService.ts, lines 58-66
systemInstructionStateless(context) ==
  <<"You are a specialized website assistant. Your goal is to answer questions and discuss topics based *only* on the provided study materials. Do not use any external knowledge. If the answer is not in the materials, say \"I can't find that information in the provided text.\" Be friendly and concise.\n\nHere are the study materials:\n---\n">>
  \o sliceTo(context, ContextLimit) \o <<"\n---\n">>

\* The aiService that opens a chat per call, lines 58-64
systemInstructionChat(context) ==
  <<"You are a specialized website assistant. Your goal is to answer questions and discuss topics based *only* on the provided study materials. Do not use any external knowledge. If the answer is not in the materials, say \"I can't find that information in the study materials.\" Be friendly and encouraging.\n\nHere are the study materials:\n---\n">>
  \o context \o <<"\n---\n">>

\* messages.filter(m => m.role === 'user' || m.role === 'model')
\*         .map(m => ({ role: m.role, parts: [{ text: m.content }] }))
historyStateless(msgs) ==
  LET kept == SelectSeq(msgs, LAMBDA m : m.role = "user" \/ m.role = "model")
  IN [i \in 1..Len(kept) |-> Turn(kept[i].role, kept[i].content)]

\* The request built from the transcript as it was before the user's message.
requestStatelessStale(context, msgs) ==
  [api |-> "generateContent",
   systemInstruction |-> systemInstructionStateless(context),
   history |-> historyStateless(allButLast(msgs)),
   message |-> Null]

\* ai.models.generateContent({ contents: history, config: { systemInstruction } })
requestStateless(context, msgs) ==
  [api |-> "generateContent",
   systemInstruction |-> systemInstructionStateless(context),
   history |-> historyStateless(msgs),
   message |-> Null]

\* historyMessages.map(msg => ({ role: msg.role === 'model' ? 'model' : 'user', ... }))
\*                .filter(msg => msg.role === 'user' || msg.role === 'model')
mappedHistory(msgs) ==
  LET mapped == [i \in 1..Len(msgs) |->
                   Turn(IF msgs[i].role = "model" THEN "model" ELSE "user",
                        msgs[i].content)]
  IN SelectSeq(mapped, LAMBDA t : t.role = "user" \/ t.role = "model")

\* if (history.length > 0 && history[0].role === 'model') history.shift()
dropLeadingModel(history) ==
  IF Len(history) > 0 /\ history[1].role = "model" THEN Tail(history) ELSE history

\* A chat opened without the earlier turns.
requestChatNoHistory(context, msgs) ==
  [api |-> "chat",
   systemInstruction |-> systemInstructionChat(context),
   history |-> <<>>,
   message |-> Some(msgs[Len(msgs)].content)]

\* ai.chats.create({ config, history }).sendMessage({ message: lastMessage.content })
requestChat(context, msgs) ==
  [api |-> "chat",
   systemInstruction |-> systemInstructionChat(context),
   history |-> dropLeadingModel(mappedHistory(allButLast(msgs))),
   message |-> Some(msgs[Len(msgs)].content)]

\* The request getChatResponse sends, or Null: if (!lastMessage) return "".
\* handleSendMessage always passes a list that ends with userMsg, so the chat
\* never takes that return.
chatRequestOf(svc, context, msgs) ==
  IF svc = "object" THEN Some(requestStateless(context, msgs))
  ELSE IF msgs = <<>> THEN Null
  ELSE Some(requestChat(context, msgs))

\* The turns the model is given: contents, or the chat's history followed by the
\* message, which sendMessage sends as a user turn.
upstreamTurns(req) ==
  IF req.message = Null THEN req.history
  ELSE Append(req.history, Turn("user", req.message[1]))

\* An empty text answered with the fallback string instead of an error.
chatOutcomeEmptyFallback(resp) ==
  CASE resp.kind = "text" -> [threw |-> FALSE, text |-> resp.text]
    [] resp.kind = "empty" ->
         [threw |-> FALSE, text |-> <<"I couldn't generate a response.">>]
    [] OTHER -> [threw |-> TRUE, text |-> resp.text]

\* What getChatResponse does with the API's behaviour resp: services/aiService.ts
\* throws on an empty text and re-throws the API's error.
chatOutcomeStateless(resp) ==
  CASE resp.kind = "text" -> [threw |-> FALSE, text |-> resp.text]
    [] resp.kind = "empty" ->
         [threw |-> TRUE, text |-> <<"Received an empty response from the Gemini API.">>]
    [] OTHER -> [threw |-> TRUE, text |-> resp.text]

\* The other aiService returns a fallback for an empty text and wraps the error.
chatOutcomeChat(resp) ==
  CASE resp.kind = "text" -> [threw |-> FALSE, text |-> resp.text]
    [] resp.kind = "empty" ->
         [threw |-> FALSE, text |-> <<"I couldn't generate a response.">>]
    [] OTHER ->
         [threw |-> TRUE, text |-> <<"An error occurred while contacting the Gemini API.">>]

chatOutcome(svc, resp) ==
  IF svc = "object" THEN chatOutcomeStateless(resp) ELSE chatOutcomeChat(resp)

ChatResponses ==
  { [kind |-> "text", text |-> <<"o", "k">>],
    [kind |-> "empty", text |-> <<>>],
    [kind |-> "apiError", text |-> <<"503 Service Unavailable">>] }

\* ------------------------------------------------------------ ChatInterface
Digits == <<"0", "1", "2", "3", "4", "5", "6", "7", "8", "9">>

\* Number.prototype.toString, base 10
RECURSIVE toString(_)
toString(n) ==
  IF n < 10 THEN <<Digits[n + 1]>>
  ELSE toString(n \div 10) \o <<Digits[(n % 10) + 1]>>

Message(id, role, content, timestamp) ==
  [id |-> id, role |-> role, content |-> content, timestamp |-> timestamp]

\* useEffect(() => { setMessages([initialMessage]) }, [websiteData])
initialMessage(data, clock) ==
  Message(<<"init-1">>, "model",
          <<"I have read **">>
            \o (IF data.title # <<>> THEN data.title ELSE <<"the page">>)
            \o <<"**. \n\nWhat would you like to know?">>,
          clock)

\* const userMsg = { id: Date.now().toString(), role: 'user', content: userMsgText, ... }
userMsg(text, clock) == Message(toString(clock), "user", text, clock)

\* const botMsg = { id: (Date.now() + 1).toString(), role: 'model', content: responseText, ... }
botMsg(text, clock) == Message(toString(clock + 1), "model", text, clock)

ChatErrorText ==
  <<"I encountered a disturbance in the data stream. Please try again.">>

\* An error reply that is not an assistant message.
errorMsgAsSystem(clock) == Message(toString(clock + 1), "system", ChatErrorText, clock)

\* const errorMsg = { id: (Date.now() + 1).toString(), role: 'model', content: "...", ... }
errorMsg(clock) == botMsg(ChatErrorText, clock)

\* A guard that lets whitespace through.
sendRefusedEmptyOnly == inputValue = <<>> \/ isProcessing

\* if (!inputValue.trim() || isProcessing) return
sendRefused == trim(inputValue) = <<>> \/ isProcessing

\* <input ... disabled={isProcessing} />
inputDisabled == isProcessing

\* A send that leaves the processing flag down.
startProcessingForgotten == FALSE

\* setIsProcessing(true)
startProcessing == TRUE

\* A reply written over the last message instead of after it.
replyOverLast(prev, msg) == Append(allButLast(prev), msg)

\* setMessages(prev => [...prev, botMsg])
appendReply(prev, msg) == Append(prev, msg)

InputValues == {<<" ">>, <<"q">>, <<" ", "r", " ">>}

Pages ==
  [url : {<<"h", "t", "t", "p", "s", ":", "/", "/", "a">>},
   title : {<<>>, <<"T">>},
   content : {X(MinContentLength)},
   timestamp : {0}]

NoPage == [url |-> <<>>, title |-> <<>>, content |-> <<>>, timestamp |-> 0]

ChatUnmounted ==
  /\ websiteData = NoPage
  /\ chatMounted = FALSE
  /\ messages = <<>>
  /\ inputValue = <<>>
  /\ isProcessing = FALSE
  /\ chatRequests = <<>>

\* -------------------------------------------------------- GeminiChatService
ApiErrorMessage == <<"503 Service Unavailable">>
SyntaxErrorMessage == <<"Unexpected token < in JSON at position 0">>

\* Whatever is thrown inside the try replaced by one generic error.
searchWebsitesSessionWrapped(resp) ==
  CASE resp.kind \in {"apiError", "badJson"} ->
         Thrown(<<"Failed to search for websites. Please try again.">>)
    [] resp.kind = "array" -> Returned(resp.items)
    [] OTHER -> Returned(<<>>)

\* searchWebsites: a missing text gives [], anything that is not an array gives
\* [], and whatever is thrown inside the try, by the API or by JSON.parse, is
\* re-thrown as it is.
searchWebsitesSession(resp) ==
  CASE resp.kind = "apiError" -> Thrown(ApiErrorMessage)
    [] resp.kind = "badJson" -> Thrown(SyntaxErrorMessage)
    [] resp.kind = "array" -> Returned(resp.items)
    [] OTHER -> Returned(<<>>)

\* The history initializeChat seeds the session with.
seedHistory(context) ==
  << Turn("user",
          <<"Here is the website content you must use as your source of truth:\n\n=== BEGIN CONTENT ===\n">>
            \o context
            \o <<"\n=== END CONTENT ===\n\nPlease confirm you understand the instructions.">>),
     Turn("model",
          <<"I understand. I will answer questions solely based on the provided website content.">>) >>

SessionInstruction ==
  <<"\nYou are a specialized website assistant. \nYou have access to the text content of a specific webpage. \nYour goal is to answer user questions based STRICTLY and ONLY on the provided context.\nDo not use your own outside knowledge, general facts, or information from the internet unless it is explicitly present in the provided context.\nIf the answer to a user's question is not found in the context, you must politely state that the information is not available on the website.\nDo not hallucinate URLs or facts.\n    ">>

NotInitializedMessage == <<"Chat session not initialized. Call initializeChat first.">>

\* this.chatSession.sendMessage({ message: userMessage })
requestSession(history, userMessage) ==
  [api |-> "chat",
   systemInstruction |-> SessionInstruction,
   history |-> history,
   message |-> Some(userMessage)]

\* sendMessage: return response.text || "I couldn't generate a response."; the
\* API's error is re-thrown as it is.
chatOutcomeSession(resp) ==
  CASE resp.kind = "text" -> [threw |-> FALSE, text |-> resp.text]
    [] resp.kind = "empty" ->
         [threw |-> FALSE, text |-> <<"I couldn't generate a response.">>]
    [] OTHER -> [threw |-> TRUE, text |-> resp.text]

\* ---------------------------------------------- calls of the inference client
Call(op, context, msgs, text) ==
  [op |-> op, context |-> context, messages |-> msgs, text |-> text]

Roles == {"user", "model", "system"}

\* Transcripts of any shape, system messages included.
Transcripts ==
  {[i \in 1..Len(rs) |-> Message(toString(i), rs[i], <<"m", Digits[i + 1]>>, 0)] :
     rs \in SeqsUpTo(Roles, MaxTranscript)}

Contexts == {<<"c", "t", "x">>}

ClientCalls(svc) ==
  {Call("searchWebsites", <<>>, <<>>, t) : t \in Topics}
  \cup (IF svc = "session"
        THEN {Call("initializeChat", c, <<>>, <<>>) : c \in Contexts}
             \cup {Call("sendMessage", <<>>, <<>>, t) : t \in InputValues}
        ELSE {Call("getChatResponse", c, ms, <<>>) : c \in Contexts, ms \in Transcripts})

\* What the search API does when the client is called directly: every kind of
\* response, with no candidate or one.
ClientSearchResponses ==
  {[kind |-> k, items |-> <<>>] :
     k \in {"apiError", "noText", "badJson", "nullJson", "otherJson"}}
  \cup [kind : {"array", "object"},
        items : {<<>>} \cup {itemsOf(<<u>>) : u \in SearchUrls}]

ClientIdle ==
  /\ chatSession = Null
  /\ clientCall = Null
  /\ clientRequest = Null
  /\ clientOutcome = Null

\* ---------------------------------------------------------------------- App
AppIdle ==
  /\ appState = "IDLE"
  /\ errorMessage = Null
  /\ inputUrl = <<>>
  /\ appScrapes = <<>>
  /\ submittedFrom = "IDLE"

\* isLoading={appState === AppState.SCRAPING}
isLoading == appState = "SCRAPING"

\* UrlInput is rendered in IDLE, SCRAPING and ERROR, ChatInterface in CHATTING.
UrlInputShown == appState \in {"IDLE", "SCRAPING", "ERROR"}

AppFallbackMessage == <<"Failed to scrape the website.">>

\* What the user types into the URL field.
InputUrls == {<<" ">>, <<"a", ".", "c", "o", "m">>}

\* The URLs the search API proposes while the whole app runs.
AppSearchUrls ==
  { <<"h", "t", "t", "p", ":", "/", "/", "a", ".", "c", "o", "m">>,
    <<"h", "t", "t", "p", ":", "/", "/", "b", ".", "c", "o", "m">> }

\* What the proxy does while the whole app runs: a page with enough text and no
\* title (the page's URL stands for its title), or a network error.
AppProxyBehaviours ==
  { [kind |-> "html", text |-> <<>>,
     doc |-> [title |-> <<>>, body |-> <<[tag |-> "p", text |-> X(MinContentLength)]>>]],
    [kind |-> "networkError", text |-> <<"Failed to fetch">>, doc |-> EmptyDoc] }

AppSearchResponses ==
  {[kind |-> "apiError", items |-> <<>>]}
  \cup [kind : {"object"}, items : {itemsOf(urls) : urls \in SeqsUpTo(AppSearchUrls, 2)}]

\* ---------------------------------------------------------------- the clock
Tick == now < MaxClock /\ now' = now + 1

\* ------------------------------------------- scrapeWebsite as a state machine
ScrapeCall(url) ==
  /\ scrapePc = "idle"
  /\ scrapeUrl' = url
  /\ scrapeRequest' = Some(proxyRequest(targetUrlOf(url)))
  /\ scrapePc' = "fetch"
  /\ UNCHANGED <<appVars, clientVars, now, scrapeResponse, scrapeResult, searchVars, chatVars>>

FetchSettled(r) ==
  /\ scrapePc = "fetch"
  /\ scrapeResponse' = r
  /\ IF afterFetch(r) # Null
     THEN scrapeResult' = afterFetch(r) /\ scrapePc' = "done"
     ELSE scrapeResult' = Null /\ scrapePc' = "json"
  /\ UNCHANGED <<appVars, clientVars, now, scrapeUrl, scrapeRequest, searchVars, chatVars>>

JsonSettled ==
  /\ scrapePc = "json"
  /\ scrapeResult' = Some(afterJson(targetUrlOf(scrapeUrl), scrapeResponse, now))
  /\ scrapePc' = "done"
  /\ UNCHANGED <<appVars, clientVars, now, scrapeUrl, scrapeRequest, scrapeResponse, searchVars, chatVars>>

ScrapeIdle ==
  /\ scrapePc = "idle"
  /\ scrapeUrl = <<>>
  /\ scrapeRequest = Null
  /\ scrapeResponse = NoResponse
  /\ scrapeResult = Null

InitScrape ==
  /\ now = 0
  /\ ScrapeIdle
  /\ uiVariant = "A"
  /\ svcVariant = "object"
  /\ SearchIdle
  /\ ChatUnmounted
  /\ ClientIdle
  /\ AppIdle

TickScrape == Tick /\ UNCHANGED <<appVars, clientVars, scrapeVars, searchVars, chatVars>>

NextScrape ==
  \/ \E url \in Urls : ScrapeCall(url)
  \/ \E r \in ProxyBehaviours : FetchSettled(r)
  \/ JsonSettled
  \/ TickScrape

SpecScrape == InitScrape /\ [][NextScrape]_vars


\* ------------------------------------------ topic search as a state machine
\* onChange={(e) => setTopic(e.target.value)}: the form is shown while there are
\* no results.
SetTopic(t) ==
  /\ searchResults = Null
  /\ topic' = t
  /\ UNCHANGED <<appVars, clientVars, now, scrapeVars, chatVars, uiVariant, svcVariant, isSearchingTopic,
                 loadingStatus, searchResults, searchError, searchPc, searchResponse,
                 rawResults, uniqueResults, verification, outOfOrder>>

\* The form can be submitted: it is shown and its button is not disabled.
canSubmitTopic == searchResults = Null /\ ~isSearchingTopic /\ topic # <<>>

\* A search that starts without clearing the error of the one before.
TopicSearchStartKeepsError ==
  /\ canSubmitTopic
  /\ trim(topic) # <<>>
  /\ isSearchingTopic' = TRUE
  /\ searchResults' = Null
  /\ loadingStatus' = SearchingStatus(uiVariant)
  /\ searchPc' = "search"
  /\ searchResponse' = NoSearchResponse
  /\ rawResults' = <<>>
  /\ uniqueResults' = <<>>
  /\ verification' = <<>>
  /\ outOfOrder' = FALSE
  /\ UNCHANGED <<appVars, clientVars, now, scrapeVars, chatVars, uiVariant, svcVariant, topic,
                 searchError>>

\* handleTopicSearch up to await aiService.searchWebsites(topic).
TopicSearchStart ==
  /\ canSubmitTopic
  /\ trim(topic) # <<>>
  /\ isSearchingTopic' = TRUE
  /\ searchError' = Null
  /\ searchResults' = Null
  /\ loadingStatus' = SearchingStatus(uiVariant)
  /\ searchPc' = "search"
  /\ searchResponse' = NoSearchResponse
  /\ rawResults' = <<>>
  /\ uniqueResults' = <<>>
  /\ verification' = <<>>
  /\ outOfOrder' = FALSE
  /\ UNCHANGED <<appVars, clientVars, now, scrapeVars, chatVars, uiVariant, svcVariant, topic>>

\* if (!topic.trim()) return
TopicSearchBlank ==
  /\ canSubmitTopic
  /\ trim(topic) = <<>>
  /\ UNCHANGED vars

\* searchWebsites threw: catch, then finally.
SearchFailed(resp) ==
  /\ searchPc = "search"
  /\ searchWebsites(svcVariant, resp).threw
  /\ searchResponse' = resp
  /\ searchError' =
       Some(IF searchWebsites(svcVariant, resp).message # <<>>
            THEN searchWebsites(svcVariant, resp).message
            ELSE SearchFallbackMessage(uiVariant))
  /\ isSearchingTopic' = FALSE
  /\ loadingStatus' = <<>>
  /\ searchPc' = "idle"
  /\ UNCHANGED <<appVars, clientVars, now, scrapeVars, chatVars, uiVariant, svcVariant, topic, searchResults,
                 rawResults, uniqueResults, verification, outOfOrder>>

\* The early return taken without the finally block: the search stays busy.
SearchEmptyStillBusy(resp) ==
  /\ searchPc = "search"
  /\ ~searchWebsites(svcVariant, resp).threw
  /\ searchWebsites(svcVariant, resp).value = <<>>
  /\ searchResponse' = resp
  /\ searchError' = Some(NoCandidatesMessage(uiVariant))
  /\ searchPc' = "idle"
  /\ UNCHANGED <<appVars, clientVars, now, scrapeVars, chatVars, uiVariant, svcVariant, topic, searchResults,
                 rawResults, uniqueResults, verification, outOfOrder, isSearchingTopic,
                 loadingStatus>>

\* rawResults.length === 0: the error, the early return, then finally.
SearchEmpty(resp) ==
  /\ searchPc = "search"
  /\ ~searchWebsites(svcVariant, resp).threw
  /\ searchWebsites(svcVariant, resp).value = <<>>
  /\ searchResponse' = resp
  /\ searchError' = Some(NoCandidatesMessage(uiVariant))
  /\ isSearchingTopic' = FALSE
  /\ loadingStatus' = <<>>
  /\ searchPc' = "idle"
  /\ UNCHANGED <<appVars, clientVars, now, scrapeVars, chatVars, uiVariant, svcVariant, topic, searchResults,
                 rawResults, uniqueResults, verification, outOfOrder>>

\* Candidates came back: deduplicate, start one check per unique candidate and
\* await Promise.all.
SearchReturned(resp) ==
  /\ searchPc = "search"
  /\ ~searchWebsites(svcVariant, resp).threw
  /\ searchWebsites(svcVariant, resp).value # <<>>
  /\ searchResponse' = resp
  /\ rawResults' = searchWebsites(svcVariant, resp).value
  /\ loadingStatus' = VerifyingStatus(uiVariant)
  /\ uniqueResults' = dedupe(rawResults')
  /\ verification' = [i \in 1..Len(uniqueResults') |-> PendingSlot]
  /\ outOfOrder' = FALSE
  /\ searchPc' = "verify"
  /\ UNCHANGED <<appVars, clientVars, now, scrapeVars, chatVars, uiVariant, svcVariant, topic, isSearchingTopic,
                 searchResults, searchError>>

\* await aiService.searchWebsites(topic) settles, the API behaving as resp.
SearchSettled ==
  /\ searchPc = "search"
  /\ \E resp \in SearchResponses :
       \/ SearchFailed(resp)
       \/ SearchEmpty(resp)
       \/ SearchReturned(resp)

\* Promise.all has fulfilled: filter, publish, finally.
joined(slots) ==
  /\ IF verifiedResultsOf(slots) = <<>>
     THEN /\ searchError' = Some(InaccessibleMessage(uiVariant))
          /\ UNCHANGED searchResults
     ELSE /\ searchResults' = Some(verifiedResultsOf(slots))
          /\ UNCHANGED searchError
  /\ isSearchingTopic' = FALSE
  /\ loadingStatus' = <<>>
  /\ searchPc' = "idle"

\* A join that fires as soon as one check has settled.
someSettled(slots) == \E j \in 1..Len(slots) : slots[j].settled

\* await Promise.all(verificationPromises): every promise has fulfilled.
allSettled(slots) == \A j \in 1..Len(slots) : slots[j].settled

\* The check of candidate i settles with the proxy behaving as r; the last one
\* to settle fulfils Promise.all.
VerifySettled(i, r) ==
  /\ searchPc = "verify"
  /\ i \in 1..Len(verification)
  /\ ~verification[i].settled
  /\ verification' =
       [verification EXCEPT
          ![i] = fulfilled(uniqueResults[i], checkScrapability(uniqueResults[i].url, r, now))]
  /\ outOfOrder' = (outOfOrder \/ \E j \in 1..(i - 1) : ~verification[j].settled)
  /\ IF allSettled(verification')
     THEN joined(verification')
     ELSE UNCHANGED <<appVars, clientVars, isSearchingTopic, loadingStatus, searchPc, searchResults,
                      searchError>>
  /\ UNCHANGED <<appVars, clientVars, now, scrapeVars, chatVars, uiVariant, svcVariant, topic, searchResponse,
                 rawResults, uniqueResults>>

\* resetSearch, the button above the result list.
resetSearch ==
  /\ searchResults # Null
  /\ searchResults' = Null
  /\ searchError' = Null
  /\ topic' = <<>>
  /\ UNCHANGED <<appVars, clientVars, now, scrapeVars, chatVars, uiVariant, svcVariant, isSearchingTopic,
                 loadingStatus, searchPc, searchResponse, rawResults, uniqueResults,
                 verification, outOfOrder>>

InitSearch ==
  /\ now = 0
  /\ ScrapeIdle
  /\ uiVariant \in {"A", "B"}
  /\ svcVariant \in {"object", "array"}
  /\ SearchIdle
  /\ ChatUnmounted
  /\ ClientIdle
  /\ AppIdle

NextSearch ==
  \/ \E t \in Topics : SetTopic(t)
  \/ TopicSearchStart
  \/ TopicSearchBlank
  \/ SearchSettled
  \/ \E i \in DOMAIN verification, r \in VerifyBehaviours : VerifySettled(i, r)
  \/ resetSearch

SpecSearch == InitSearch /\ [][NextSearch]_vars

\* ---------------------------------------------- the chat as a state machine
\* The effect after the first render: the greeting.
ChatMount ==
  /\ ~chatMounted
  /\ chatMounted' = TRUE
  /\ messages' = <<initialMessage(websiteData, now)>>
  /\ UNCHANGED <<appVars, clientVars, now, scrapeVars, searchVars, websiteData, inputValue, isProcessing,
                 chatRequests>>

\* onChange={(e) => setInputValue(e.target.value)}; the input is disabled while
\* isProcessing.
SetInputValue(v) ==
  /\ chatMounted
  /\ ~inputDisabled
  /\ inputValue' = v
  /\ UNCHANGED <<appVars, clientVars, now, scrapeVars, searchVars, websiteData, chatMounted, messages,
                 isProcessing, chatRequests>>

UserTurns == Len(SelectSeq(messages, LAMBDA m : m.role = "user"))

\* handleSendMessage up to await aiService.getChatResponse(...)
SendMessage ==
  /\ chatMounted
  /\ UserTurns < MaxTurns
  /\ ~sendRefused
  /\ LET newHistory == Append(messages, userMsg(trim(inputValue), now))
     IN /\ messages' = newHistory
        /\ chatRequests' =
             chatRequests \o chatRequestOf(svcVariant, websiteData.content, newHistory)
  /\ inputValue' = <<>>
  /\ isProcessing' = startProcessing
  /\ UNCHANGED <<appVars, clientVars, now, scrapeVars, searchVars, websiteData, chatMounted>>

\* handleSendMessage returning at its first line
SendRefused ==
  /\ chatMounted
  /\ sendRefused
  /\ UNCHANGED vars

\* The request at position k settles, the API behaving as resp: the reply or the
\* error message is appended, then finally.
ChatSettled(k, resp) ==
  /\ k \in 1..Len(chatRequests)
  /\ messages' =
       appendReply(messages,
                   IF chatOutcome(svcVariant, resp).threw
                   THEN errorMsg(now)
                   ELSE botMsg(chatOutcome(svcVariant, resp).text, now))
  /\ isProcessing' = FALSE
  /\ chatRequests' = SubSeq(chatRequests, 1, k - 1)
                       \o SubSeq(chatRequests, k + 1, Len(chatRequests))
  /\ UNCHANGED <<appVars, clientVars, now, scrapeVars, searchVars, websiteData, chatMounted, inputValue>>

TickChat == Tick /\ UNCHANGED <<appVars, clientVars, scrapeVars, searchVars, chatVars>>

InitChat ==
  /\ now = 0
  /\ ScrapeIdle
  /\ uiVariant = "A"
  /\ svcVariant \in {"object", "array"}
  /\ SearchIdle
  /\ ClientIdle
  /\ AppIdle
  /\ websiteData \in Pages
  /\ chatMounted = FALSE
  /\ messages = <<>>
  /\ inputValue = <<>>
  /\ isProcessing = FALSE
  /\ chatRequests = <<>>

NextChat ==
  \/ ChatMount
  \/ \E v \in InputValues : SetInputValue(v)
  \/ SendMessage
  \/ SendRefused
  \/ \E k \in DOMAIN chatRequests, resp \in ChatResponses : ChatSettled(k, resp)
  \/ TickChat

SpecChat == InitChat /\ [][NextChat]_vars

\* ------------------------------------ the inference client as a state machine
ClientFree == clientRequest = Null

\* searchWebsites(topic) up to its await.
ClientSearch(call) ==
  /\ ClientFree
  /\ call.op = "searchWebsites"
  /\ clientCall' = Some(call)
  /\ clientRequest' = Some([api |-> "generateContent", topic |-> call.text])
  /\ clientOutcome' = Null
  /\ UNCHANGED <<appVars, now, scrapeVars, searchVars, chatVars, chatSession>>

\* The search API behaves as resp.
ClientSearchSettled(resp) ==
  /\ clientRequest # Null
  /\ clientCall[1].op = "searchWebsites"
  /\ clientRequest' = Null
  /\ clientOutcome' =
       Some([resp |-> resp,
             result |-> CASE svcVariant = "session" -> searchWebsitesSession(resp)
                          [] OTHER -> searchWebsites(svcVariant, resp)])
  /\ UNCHANGED <<appVars, now, scrapeVars, searchVars, chatVars, chatSession, clientCall>>

\* An initializeChat that adds its seed to the session already there.
ClientInitializeChatKeepsTurns(call) ==
  /\ ClientFree
  /\ call.op = "initializeChat"
  /\ clientCall' = Some(call)
  /\ chatSession' = Some((IF chatSession = Null THEN <<>> ELSE chatSession[1])
                           \o seedHistory(call.context))
  /\ clientOutcome' = Some([resp |-> [kind |-> "none", text |-> <<>>],
                            result |-> Returned(<<>>)])
  /\ UNCHANGED <<appVars, now, scrapeVars, searchVars, chatVars, clientRequest>>

\* initializeChat(context): ai.chats.create opens the session locally.
ClientInitializeChat(call) ==
  /\ ClientFree
  /\ call.op = "initializeChat"
  /\ clientCall' = Some(call)
  /\ chatSession' = Some(seedHistory(call.context))
  /\ clientOutcome' = Some([resp |-> [kind |-> "none", text |-> <<>>],
                            result |-> Returned(<<>>)])
  /\ UNCHANGED <<appVars, now, scrapeVars, searchVars, chatVars, clientRequest>>

\* A chat call that ends before any request: sendMessage without a session
\* throws, getChatResponse of the chat-per-call aiService returns "" when there
\* is no last message.
ClientChatLocal(call) ==
  /\ ClientFree
  /\ \/ call.op = "sendMessage" /\ chatSession = Null
     \/ call.op = "getChatResponse"
          /\ chatRequestOf(svcVariant, call.context, call.messages) = Null
  /\ clientCall' = Some(call)
  /\ clientOutcome' =
       Some([resp |-> [kind |-> "none", text |-> <<>>],
             result |-> IF call.op = "sendMessage"
                        THEN Thrown(NotInitializedMessage)
                        ELSE Returned(<<>>)])
  /\ UNCHANGED <<appVars, now, scrapeVars, searchVars, chatVars, chatSession, clientRequest>>

\* A chat call up to its await.
ClientChat(call) ==
  /\ ClientFree
  /\ \/ /\ call.op = "sendMessage"
        /\ chatSession # Null
        /\ Len(chatSession[1]) < 2 + 2 * MaxTurns
        /\ clientRequest' = Some(requestSession(chatSession[1], call.text))
     \/ /\ call.op = "getChatResponse"
        /\ chatRequestOf(svcVariant, call.context, call.messages) # Null
        /\ clientRequest' = chatRequestOf(svcVariant, call.context, call.messages)
  /\ clientCall' = Some(call)
  /\ clientOutcome' = Null
  /\ UNCHANGED <<appVars, now, scrapeVars, searchVars, chatVars, chatSession>>

chatOutcomeOf(svc, resp) ==
  IF svc = "session" THEN chatOutcomeSession(resp) ELSE chatOutcome(svc, resp)

\* The chat API behaves as resp. A session keeps the exchange it completed.
ClientChatSettled(resp) ==
  /\ clientRequest # Null
  /\ clientCall[1].op \in {"sendMessage", "getChatResponse"}
  /\ clientRequest' = Null
  /\ clientOutcome' =
       Some([resp |-> resp,
             result |-> IF chatOutcomeOf(svcVariant, resp).threw
                        THEN Thrown(chatOutcomeOf(svcVariant, resp).text)
                        ELSE Returned(chatOutcomeOf(svcVariant, resp).text)])
  /\ chatSession' =
       IF clientCall[1].op = "sendMessage" /\ resp.kind # "apiError"
       THEN Some(chatSession[1]
                   \o <<Turn("user", clientCall[1].text), Turn("model", resp.text)>>)
       ELSE chatSession
  /\ UNCHANGED <<appVars, now, scrapeVars, searchVars, chatVars, clientCall>>

InitClient ==
  /\ now = 0
  /\ ScrapeIdle
  /\ uiVariant = "A"
  /\ svcVariant \in {"object", "array", "session"}
  /\ SearchIdle
  /\ ChatUnmounted
  /\ ClientIdle
  /\ AppIdle

NextClient ==
  \/ \E call \in ClientCalls(svcVariant) : ClientSearch(call)
  \/ \E resp \in ClientSearchResponses : ClientSearchSettled(resp)
  \/ \E call \in ClientCalls(svcVariant) : ClientInitializeChat(call)
  \/ \E call \in ClientCalls(svcVariant) : ClientChatLocal(call)
  \/ \E call \in ClientCalls(svcVariant) : ClientChat(call)
  \/ \E resp \in ChatResponses : ClientChatSettled(resp)

SpecClient == InitClient /\ [][NextClient]_vars

\* ------------------------------------------------ the app as a state machine
\* An unmount after which the replies still to come are delivered.
ChatFreshKeepsPending ==
  /\ chatMounted' = FALSE
  /\ messages' = <<>>
  /\ inputValue' = <<>>
  /\ isProcessing' = FALSE
  /\ UNCHANGED chatRequests

\* ChatInterface as it is when React mounts it.
ChatFresh ==
  /\ chatMounted' = FALSE
  /\ messages' = <<>>
  /\ inputValue' = <<>>
  /\ isProcessing' = FALSE
  /\ chatRequests' = <<>>

\* UrlInput as it is when React mounts it; what its pending calls do later no
\* longer reaches any state.
UrlInputFresh ==
  /\ inputUrl' = <<>>
  /\ topic' = <<>>
  /\ isSearchingTopic' = FALSE
  /\ loadingStatus' = <<>>
  /\ searchResults' = Null
  /\ searchError' = Null
  /\ searchPc' = "idle"
  /\ searchResponse' = NoSearchResponse
  /\ rawResults' = <<>>
  /\ uniqueResults' = <<>>
  /\ verification' = <<>>
  /\ outOfOrder' = FALSE

\* onChange={(e) => setInputUrl(e.target.value)}
SetInputUrl(v) ==
  /\ UrlInputShown
  /\ inputUrl' = v
  /\ UNCHANGED <<now, scrapeVars, searchVars, chatVars, clientVars, appState, errorMessage,
                 appScrapes, submittedFrom>>

\* A submit that calls scrapeWebsite twice.
handleUrlSubmitTwice(url) ==
  /\ Len(appScrapes) < MaxScrapes
  /\ appState' = "SCRAPING"
  /\ errorMessage' = Null
  /\ appScrapes' = appScrapes \o <<url, url>>
  /\ submittedFrom' = appState

\* A submit that starts the scrape without entering SCRAPING.
handleUrlSubmitNotBusy(url) ==
  /\ Len(appScrapes) < MaxScrapes
  /\ errorMessage' = Null
  /\ appScrapes' = Append(appScrapes, url)
  /\ submittedFrom' = appState
  /\ UNCHANGED appState

\* App.handleUrlSubmit(url) up to await scrapeWebsite(url)
handleUrlSubmit(url) ==
  /\ Len(appScrapes) < MaxScrapes
  /\ appState' = "SCRAPING"
  /\ errorMessage' = Null
  /\ appScrapes' = Append(appScrapes, url)
  /\ submittedFrom' = appState

\* The URL form's button: disabled={isLoading || !inputUrl}
urlButtonEnabled == ~(isLoading \/ inputUrl = <<>>)

\* UrlInput.handleUrlSubmit: if (inputUrl.trim()) onUrlSubmit(inputUrl)
UrlFormSubmit ==
  /\ UrlInputShown
  /\ urlButtonEnabled
  /\ trim(inputUrl) # <<>>
  /\ handleUrlSubmit(inputUrl)
  /\ UNCHANGED <<now, scrapeVars, searchVars, chatVars, clientVars, inputUrl>>

UrlFormBlank ==
  /\ UrlInputShown
  /\ urlButtonEnabled
  /\ trim(inputUrl) = <<>>
  /\ UNCHANGED vars

\* A result card: a button with disabled={isLoading} in one UrlInput, a div
\* with only onClick in the other.
cardEnabled == uiVariant = "B" \/ ~isLoading

\* onClick={() => onUrlSubmit(site.url)}
CardClick(i) ==
  /\ UrlInputShown
  /\ searchResults # Null
  /\ i \in DOMAIN searchResults[1]
  /\ cardEnabled
  /\ handleUrlSubmit(searchResults[1][i].url)
  /\ UNCHANGED <<now, scrapeVars, searchVars, chatVars, clientVars, inputUrl>>

without(s, k) == SubSeq(s, 1, k - 1) \o SubSeq(s, k + 1, Len(s))

\* await scrapeWebsite(url) of call k settles, the proxy behaving as r, and
\* handleUrlSubmit runs to its end. Entering CHATTING unmounts UrlInput, leaving
\* it (to ERROR) unmounts ChatInterface; from SCRAPING to ERROR UrlInput stays.
AppScrapeSettled(k, r) ==
  /\ k \in DOMAIN appScrapes
  /\ appScrapes' = without(appScrapes, k)
  /\ \E result \in {scrapeWebsite(appScrapes[k], r, now)} :
        IF result.success /\ result.data # Null
        THEN /\ websiteData' = result.data[1]
             /\ appState' = "CHATTING"
             /\ UNCHANGED errorMessage
             /\ IF appState = "CHATTING"
                THEN /\ chatMounted' = FALSE
                     /\ UNCHANGED <<messages, inputValue, isProcessing, chatRequests>>
                ELSE ChatFresh
             /\ UrlInputFresh
        ELSE /\ errorMessage' =
                  Some(IF result.error # Null /\ result.error[1] # <<>>
                       THEN result.error[1] ELSE AppFallbackMessage)
             /\ appState' = "ERROR"
             /\ UNCHANGED websiteData
             /\ ChatFresh
             /\ UNCHANGED <<inputUrl, topic, isSearchingTopic, loadingStatus,
                            searchResults, searchError, searchPc, searchResponse,
                            rawResults, uniqueResults, verification, outOfOrder>>
  /\ UNCHANGED <<now, scrapeVars, clientVars, uiVariant, svcVariant, submittedFrom>>

\* A reset that forgets to clear the page.
handleResetKeepsData ==
  /\ appState = "CHATTING"
  /\ appState' = "IDLE"
  /\ errorMessage' = Null
  /\ ChatFresh
  /\ UNCHANGED <<now, scrapeVars, searchVars, clientVars, inputUrl, appScrapes,
                 submittedFrom, websiteData>>

\* handleReset, from either button of ChatInterface
handleReset ==
  /\ appState = "CHATTING"
  /\ appState' = "IDLE"
  /\ websiteData' = NoPage
  /\ errorMessage' = Null
  /\ ChatFresh
  /\ UNCHANGED <<now, scrapeVars, searchVars, clientVars, inputUrl, appScrapes,
                 submittedFrom>>

\* UrlInput's and ChatInterface's handlers run while the component is rendered.
AppTopicSearchStart == UrlInputShown /\ TopicSearchStart
AppSendMessage == appState = "CHATTING" /\ SendMessage

AppSearchSettled ==
  /\ searchPc = "search"
  /\ \E resp \in AppSearchResponses :
       \/ SearchFailed(resp)
       \/ SearchEmpty(resp)
       \/ SearchReturned(resp)

InitApp ==
  /\ now = 0
  /\ ScrapeIdle
  /\ uiVariant \in {"A", "B"}
  /\ svcVariant = "object"
  /\ SearchIdle
  /\ ChatUnmounted
  /\ ClientIdle
  /\ AppIdle

NextApp ==
  \/ \E v \in InputUrls : SetInputUrl(v)
  \/ UrlFormSubmit
  \/ UrlFormBlank
  \/ \E i \in 1..2 : CardClick(i)
  \/ \E k \in DOMAIN appScrapes, r \in AppProxyBehaviours : AppScrapeSettled(k, r)
  \/ handleReset
  \* ChatInterface's greeting effect, which runs again for every new websiteData
  \/ appState = "CHATTING" /\ ChatMount
  \/ \E t \in {<<"c", "a", "t", "s">>} : UrlInputShown /\ SetTopic(t)
  \/ AppTopicSearchStart
  \/ AppSearchSettled
  \/ \E i \in DOMAIN verification, r \in AppProxyBehaviours : VerifySettled(i, r)
  \/ UrlInputShown /\ resetSearch
  \/ \E v \in {<<"q">>} : appState = "CHATTING" /\ SetInputValue(v)
  \/ AppSendMessage
  \/ appState = "CHATTING" /\ SendRefused
  \/ \E k \in DOMAIN chatRequests, resp \in ChatResponses : ChatSettled(k, resp)

SpecApp == InitApp /\ [][NextApp]_vars

\* The app with a user who also types blank text into the topic field and the
\* chat input (the URL field has a blank value already) and submits it.
NextAppInputs ==
  \/ NextApp
  \/ UrlInputShown /\ SetTopic(<<" ">>)
  \/ UrlInputShown /\ TopicSearchBlank
  \/ appState = "CHATTING" /\ SetInputValue(<<" ">>)

SpecAppInputs == InitApp /\ [][NextAppInputs]_vars

\* The app when every call in flight is answered in the end: the search call,
\* the accessibility checks, the scrapes and the chat requests each settle.
SpecAppFair ==
  /\ SpecApp
  /\ WF_vars(AppSearchSettled)
  /\ WF_vars(\E i \in DOMAIN verification, r \in AppProxyBehaviours : VerifySettled(i, r))
  /\ WF_vars(\E k \in DOMAIN appScrapes, r \in AppProxyBehaviours : AppScrapeSettled(k, r))
  /\ WF_vars(\E k \in DOMAIN chatRequests, resp \in ChatResponses : ChatSettled(k, resp))

\* =================================================================== claims
\* What the claims say about text, stated without the program's own operators.
Solid(s) == SelectSeq(s, LAMBDA c : ~IsSpace(c))

WordCount(s) ==
  Cardinality({i \in 1..Len(s) : ~IsSpace(s[i]) /\ (i = 1 \/ IsSpace(s[i - 1]))})

\* The length of s once every run of whitespace is one character and the ends
\* are stripped: its non-blank characters plus one separator between words.
NormalizedLength(s) ==
  Len(Solid(s)) + (IF WordCount(s) > 0 THEN WordCount(s) - 1 ELSE 0)

\* c is s with its whitespace normalized: the same words, one space between
\* two words, nothing around them.
IsNormalizationOf(c, s) ==
  /\ Solid(c) = Solid(s)
  /\ WordCount(c) = WordCount(s)
  /\ Len(c) = NormalizedLength(s)
  /\ \A i \in 1..Len(c) : IsSpace(c[i]) => c[i] = " "

\* The text scraped by the finished call: the page's text, non-content tags removed.
ScrapedText == bodyTextContent(scrapeResponse.doc)

PageReceived == scrapePc = "done" /\ scrapeResponse.kind = "html"

\* C3: when the scraped text has at least 50 characters after whitespace
\* normalization, scrapeWebsite returns success = true, and the data's content is
\* that normalized text, non-empty, and its url is the target that was fetched.
C3_SufficientTextSucceeds ==
  (PageReceived /\ NormalizedLength(ScrapedText) >= 50) =>
    /\ scrapeResult # Null
    /\ scrapeResult[1].success
    /\ scrapeResult[1].data # Null
    /\ IsNormalizationOf(scrapeResult[1].data[1].content, ScrapedText)
    /\ scrapeResult[1].data[1].content # <<>>
    /\ scrapeRequest = Some(proxyRequest(scrapeResult[1].data[1].url))

\* C3 witness: a page of 50 characters once normalized, whose raw text was
\* longer, has been scraped successfully.
C3_Witness ==
  /\ PageReceived
  /\ NormalizedLength(ScrapedText) = 50
  /\ Len(ScrapedText) > 50
  /\ scrapeResult # Null
  /\ scrapeResult[1].success
  /\ Len(scrapeResult[1].data[1].content) = 50

FailedWith(message) ==
  /\ scrapeResult # Null
  /\ ~scrapeResult[1].success
  /\ scrapeResult[1].error = Some(message)

\* C4 as stated: a scrape that yields fewer than 50 characters of text, an empty
\* proxy payload included, fails with the insufficient-content error and no other.
C4_Original ==
  (scrapePc = "done" /\
     \/ scrapeResponse.kind = "emptyContents"
     \/ scrapeResponse.kind = "html" /\ NormalizedLength(ScrapedText) < 50)
  => FailedWith(InsufficientContentMessage)

\* C4 as amended: a received, non-empty page whose text has fewer than 50
\* characters after whitespace normalization fails with the insufficient-content
\* error; an empty proxy payload fails with 'No content received from proxy'.
C4_ShortTextIsInsufficient ==
  /\ (PageReceived /\ NormalizedLength(ScrapedText) < 50)
       => FailedWith(InsufficientContentMessage)
  /\ (scrapePc = "done" /\ scrapeResponse.kind = "emptyContents")
       => FailedWith(NoContentMessage)

\* C4 witness: a page whose raw text has 50 characters or more but fewer than 50
\* once normalized has been refused as insufficient.
C4_Witness ==
  /\ PageReceived
  /\ Len(ScrapedText) >= 50
  /\ NormalizedLength(ScrapedText) < 50
  /\ FailedWith(InsufficientContentMessage)

\* C5: scrapeWebsite never throws.  Whatever the proxy does, the call ends with
\* exactly one of {success: true, data, no error} and {success: false, non-empty
\* error string, no data}; checkScrapability is true exactly on a success.
C5_DiscriminatedResult ==
  /\ (scrapePc = "done") <=> (scrapeResult # Null)
  /\ scrapeResult # Null =>
       LET r == scrapeResult[1]
       IN /\ \/ r.success /\ r.data # Null /\ r.error = Null
             \/ ~r.success /\ r.data = Null /\ r.error # Null /\ r.error[1] # <<>>
          /\ checkScrapability(scrapeUrl, scrapeResponse, now) = r.success

\* C5 witness: fetch rejected with an error that has no message, and the call
\* ended with the fallback error string.
C5_Witness ==
  /\ scrapePc = "done"
  /\ scrapeResponse.kind = "networkError"
  /\ scrapeResponse.text = <<>>
  /\ FailedWith(ScrapeFallbackMessage)

\* ------------------------------------------------------------ topic search
\* The elements of seq at the indexes idx, in the order of seq.
SubsequenceAt(seq, idx) ==
  [k \in 1..Cardinality(idx) |->
     seq[CHOOSE i \in idx : Cardinality({j \in idx : j <= i}) = k]]

\* The deduplicated candidates whose own check succeeded, in their order.
Succeeded ==
  {i \in 1..Len(verification) : verification[i].settled /\ verification[i].isAccessible}

\* The list shown to the user: none while searchResults is null.
PresentedList == IF searchResults = Null THEN <<>> ELSE searchResults[1]

\* C1: when the verification of a topic search is over, whatever the outcomes of
\* the individual checks and the order they completed in, the list presented is
\* exactly the deduplicated candidates whose own check succeeded, in the
\* deduplicated order; and a list on show is always that list.
C1_VerifiedInOrder ==
  /\ [][(searchPc = "verify" /\ searchPc' = "idle") =>
          PresentedList' = SubsequenceAt(uniqueResults', Succeeded')]_vars
  /\ [](searchResults # Null =>
          searchResults[1] = SubsequenceAt(uniqueResults, Succeeded))

\* C1 witness: of three deduplicated candidates the second failed its check, the
\* checks did not complete in input order, and the first and third are shown.
C1_Witness ==
  /\ searchPc = "idle"
  /\ Len(uniqueResults) = 3
  /\ outOfOrder
  /\ Succeeded = {1, 3}
  /\ searchResults = Some(<<uniqueResults[1], uniqueResults[3]>>)

\* The positions of raw whose URL, normalized, occurs at no earlier position.
FirstOccurrences(raw) ==
  {i \in 1..Len(raw) :
     \A j \in 1..(i - 1) : normalized(raw[j].url) # normalized(raw[i].url)}

ClaimExample ==
  itemsOf(<< <<"h", "t", "t", "p", ":", "/", "/", "a", ".", "c", "o", "m", "/">>,
             <<"H", "T", "T", "P", ":", "/", "/", "A", ".", "c", "o", "m">>,
             <<"h", "t", "t", "p", ":", "/", "/", "a", ".", "c", "o", "m">> >>)

\* C2: of the candidates whose URLs are equal after normalization exactly one is
\* retained, the first in input order, and the retained candidates keep the
\* input order; http://a.com/, HTTP://A.com and http://a.com leave one candidate.
C2_FirstOfEachUrlRetained ==
  /\ searchPc = "verify" =>
       uniqueResults = SubsequenceAt(rawResults, FirstOccurrences(rawResults))
  /\ (searchPc = "verify" /\ rawResults = ClaimExample) => Len(uniqueResults) = 1

\* C2 witness: the three URLs of the example came back and only the first
\* candidate was retained.
C2_Witness ==
  /\ searchPc = "verify"
  /\ rawResults = ClaimExample
  /\ uniqueResults = <<ClaimExample[1]>>

\* The cases a finished search can be in, read off what happened.
SearchThrew ==
  searchResponse.kind # "pending" /\ searchWebsites(svcVariant, searchResponse).threw
NoCandidates ==
  /\ searchResponse.kind # "pending"
  /\ ~searchWebsites(svcVariant, searchResponse).threw
  /\ searchWebsites(svcVariant, searchResponse).value = <<>>
AllFilteredOut ==
  /\ Len(verification) > 0
  /\ \A i \in 1..Len(verification) :
       verification[i].settled /\ ~verification[i].isAccessible

\* C6: 'no candidates' and 'every candidate failed verification' set different
\* error messages, and each message is set in its own case only: not in the
\* other case, not after a hard search failure; each case sets its message.
C6_DistinctErrorMessages ==
  /\ \A u1, u2 \in {"A", "B"} : NoCandidatesMessage(u1) # InaccessibleMessage(u2)
  /\ searchError = Some(NoCandidatesMessage(uiVariant)) =>
       NoCandidates /\ ~AllFilteredOut /\ ~SearchThrew
  /\ searchError = Some(InaccessibleMessage(uiVariant)) =>
       AllFilteredOut /\ ~NoCandidates /\ ~SearchThrew
  /\ (searchPc = "idle" /\ NoCandidates) =>
       searchError = Some(NoCandidatesMessage(uiVariant))
  /\ (searchPc = "idle" /\ AllFilteredOut) =>
       searchError = Some(InaccessibleMessage(uiVariant))

\* C6 witness: two candidates were found, both failed verification, and the
\* 'inaccessible' message is shown.
C6_Witness ==
  /\ searchPc = "idle"
  /\ Len(uniqueResults) = 2
  /\ AllFilteredOut
  /\ searchError = Some(InaccessibleMessage(uiVariant))
  /\ searchResults = Null
\* ---- the conversation
\* The turns appended after the greeting, as role and text.
AppendedTurns ==
  [i \in 1..(Len(messages) - 1) |-> Turn(messages[i + 1].role, messages[i + 1].content)]

GreetingTurn == Turn(messages[1].role, messages[1].content)

\* C7: while a request is in flight, the turns it gave the model are exactly the
\* turns appended to the transcript so far (user messages, replies and error
\* replies), each with its role and content and in the transcript's order,
\* preceded by nothing or by the greeting alone.
C7_TurnsRoundTrip ==
  \A k \in DOMAIN chatRequests :
    \/ upstreamTurns(chatRequests[k]) = AppendedTurns
    \/ upstreamTurns(chatRequests[k]) = <<GreetingTurn>> \o AppendedTurns

\* A second question is in flight after a first one was answered with the error
\* reply.
C7_Witness ==
  /\ chatRequests # <<>>
  /\ Len(messages) = 4
  /\ messages[3].content = ChatErrorText
  /\ messages[4].role = "user"

\* C8, as the claim states it: the turns given to the model start with a user
\* turn and alternate between user and model.
C8_SentStartsWithUser ==
  \A k \in DOMAIN chatRequests :
    LET sent == upstreamTurns(chatRequests[k])
    IN /\ sent # <<>>
       /\ sent[1].role = "user"
       /\ \A i \in 1..(Len(sent) - 1) : sent[i].role # sent[i + 1].role

IsPrefixById(old, new) ==
  /\ Len(old) <= Len(new)
  /\ \A i \in DOMAIN old :
       /\ new[i].id = old[i].id
       /\ new[i].role = old[i].role
       /\ new[i].content = old[i].content

\* C9: in a conversation about one page, every step leaves each message of the
\* transcript at its index with its id, role and content; a step only adds
\* messages after the last one.
C9_TranscriptAppendOnly == [][IsPrefixById(messages, messages')]_vars

\* Two questions were sent, the first answered by the model and the second by
\* the error reply.
C9_Witness ==
  /\ Len(messages) = 5
  /\ ~isProcessing
  /\ messages[3].content # ChatErrorText
  /\ messages[5].content = ChatErrorText

UserTurnStarted ==
  /\ Len(messages') = Len(messages) + 1
  /\ messages'[Len(messages')].role = "user"

\* C10: there is never more than one chat request in flight, no two user
\* messages are next to each other in the transcript, and a user message is
\* added only by a step taken while isProcessing is false.
C10_OneRequestInFlight ==
  /\ [](/\ Len(chatRequests) <= 1
        /\ \A i \in 1..(Len(messages) - 1) :
             ~(messages[i].role = "user" /\ messages[i + 1].role = "user"))
  /\ [][UserTurnStarted => ~isProcessing]_vars

\* The second question is in flight, and a submit at this point is refused.
C10_Witness ==
  /\ isProcessing
  /\ sendRefused
  /\ Len(chatRequests) = 1
  /\ UserTurns = 2

\* ---- failures of a chat turn
FailedChatResponses == {r \in ChatResponses : r.kind # "text"}

\* C11: when the request of a turn settles with an API error or an empty text,
\* the step appends exactly one message, of role model, after the user's
\* message, which stays where it was; isProcessing is false afterwards and the
\* input is enabled again.
C11_FailedTurnAppendsOneReply ==
  [][\A k \in DOMAIN chatRequests, resp \in FailedChatResponses :
       ChatSettled(k, resp) =>
         /\ Len(messages') = Len(messages) + 1
         /\ SubSeq(messages', 1, Len(messages)) = messages
         /\ messages[Len(messages)].role = "user"
         /\ messages'[Len(messages')].role = "model"
         /\ ~isProcessing'
         /\ ~inputDisabled']_vars

\* A turn has failed with the error reply and the user has typed the next
\* question.
C11_Witness ==
  /\ Len(messages) = 3
  /\ messages[2].role = "user"
  /\ messages[3].content = ChatErrorText
  /\ ~isProcessing
  /\ trim(inputValue) # <<>>
  /\ ~sendRefused

\* ---- the inference client's results
ChatCallDone ==
  /\ clientOutcome # Null
  /\ clientCall[1].op \in {"sendMessage", "getChatResponse"}

ChatFallback == <<"I couldn't generate a response.">>

\* C12, as the claim states it: an empty response text makes the chat call
\* return the fallback string, and the call throws only when the API call
\* failed.
C12_Original ==
  ChatCallDone =>
    /\ clientOutcome[1].resp.kind = "empty" =>
         clientOutcome[1].result = Returned(ChatFallback)
    /\ clientOutcome[1].result.threw => clientOutcome[1].resp.kind = "apiError"

\* C12 as the code has it: on an empty response text the chat-per-call aiService
\* and GeminiChatService.sendMessage return the fallback string, while
\* services/aiService.ts throws "Received an empty response from the Gemini
\* API."; a text is returned as it is and a failed API call always throws. A
\* call throws without a failed API call only in these two cases: the empty
\* text in services/aiService.ts, and sendMessage before initializeChat.
C12_EmptyResponseByVariant ==
  ChatCallDone =>
    LET resp == clientOutcome[1].resp
        result == clientOutcome[1].result
    IN /\ resp.kind = "empty" /\ svcVariant \in {"array", "session"} =>
            result = Returned(ChatFallback)
       /\ resp.kind = "empty" /\ svcVariant = "object" =>
            result = Thrown(<<"Received an empty response from the Gemini API.">>)
       /\ resp.kind = "text" => result = Returned(resp.text)
       /\ resp.kind = "apiError" => result.threw
       /\ result.threw =>
            \/ resp.kind = "apiError"
            \/ resp.kind = "empty" /\ svcVariant = "object"
            \/ resp.kind = "none" /\ clientCall[1].op = "sendMessage"

\* services/aiService.ts got an empty text for a transcript that ends with a user
\* message, and threw.
C12_Witness ==
  /\ ChatCallDone
  /\ svcVariant = "object"
  /\ clientOutcome[1].resp.kind = "empty"
  /\ clientOutcome[1].result.threw
  /\ clientCall[1].messages # <<>>
  /\ clientCall[1].messages[Len(clientCall[1].messages)].role = "user"

\* ---- what a topic search shows for each kind of search response
\* The text is not JSON, is the JSON null, or is JSON of another shape.
Unparsable == {"badJson", "nullJson", "otherJson"}

SearchDone == searchPc = "idle" /\ searchResponse.kind # "pending"

FindSourcesMessage ==
  <<"Failed to find sources. The AI may be unavailable or the topic too restrictive.">>

\* C13, as the claim states it: after a search response that cannot be parsed
\* or is no candidate list, searchWebsites has returned [] without throwing
\* and the topic search shows the 'no candidates' message.
C13_Original ==
  (SearchDone /\ searchResponse.kind \in Unparsable) =>
    /\ searchWebsites(svcVariant, searchResponse) = Returned(<<>>)
    /\ searchError = Some(NoCandidatesMessage(uiVariant))

\* C13 as the code has it: the aiService that parses in a try of its own returns
\* [] for every such response and the 'no candidates' message is shown;
\* services/aiService.ts does so only for JSON of another shape, and for a text
\* that is not JSON or is null it throws its wrapped error, which the topic
\* search shows as a search failure.
C13_ParseFailureByVariant ==
  (SearchDone /\ searchResponse.kind \in Unparsable) =>
    IF svcVariant = "array" \/ searchResponse.kind = "otherJson"
    THEN /\ searchWebsites(svcVariant, searchResponse) = Returned(<<>>)
         /\ searchError = Some(NoCandidatesMessage(uiVariant))
    ELSE /\ searchWebsites(svcVariant, searchResponse) = Thrown(FindSourcesMessage)
         /\ searchError = Some(FindSourcesMessage)
         /\ searchResults = Null

\* services/aiService.ts got a text that is not JSON and the search ended with
\* the wrapped error on screen.
C13_Witness ==
  /\ SearchDone
  /\ svcVariant = "object"
  /\ searchResponse.kind = "badJson"
  /\ searchError = Some(FindSourcesMessage)
  /\ ~isSearchingTopic

\* ---- a failed search API call
SearchCallDone == clientOutcome # Null /\ clientCall[1].op = "searchWebsites"

SearchAgainMessage == <<"Failed to search for websites. Please try again.">>

C15_DataHeldUntilReset ==
  [][appState = "CHATTING" =>
       \/ handleReset
       \/ appState' = "CHATTING" /\ websiteData' = websiteData]_vars

\* ---- requests
PendingChecks == {i \in DOMAIN verification : ~verification[i].settled}

UrlSubmitted == UrlFormSubmit \/ \E i \in 1..2 : CardClick(i)

\* C16: every request is issued by the step of a user action, one per action. A
\* URL submit adds exactly one scrape and nothing else ever adds one; a search
\* request starts only in the step that starts a topic search; proxy checks
\* start only when that search's candidates arrive, one per deduplicated
\* candidate, and a settled check is never started again; a chat request is
\* added only by the step that sends a user message, one per message. Steps in
\* which a request settles, failures included, start nothing for the operation
\* that failed.
C16_NoAutomaticRetry ==
  /\ [][/\ UrlSubmitted => Len(appScrapes') = Len(appScrapes) + 1
        /\ ~UrlSubmitted =>
             \/ appScrapes' = appScrapes
             \/ \E k \in DOMAIN appScrapes : appScrapes' = without(appScrapes, k)]_vars
  /\ [][/\ (searchPc # "search" /\ searchPc' = "search") => AppTopicSearchStart
        /\ PendingChecks' \ PendingChecks # {} =>
             /\ searchPc = "search"
             /\ searchPc' = "verify"
             /\ Len(verification') = Len(dedupe(rawResults'))]_vars
  /\ [][/\ AppSendMessage => Len(chatRequests') = Len(chatRequests) + 1
        /\ ~AppSendMessage => Len(chatRequests') <= Len(chatRequests)]_vars

\* The scrape submitted from the ERROR state has succeeded: the app, with the
\* UrlInput that allows one scrape at a time, is in CHATTING.
C16_Witness ==
  /\ uiVariant = "A"
  /\ submittedFrom = "ERROR"
  /\ appState = "CHATTING"
  /\ appScrapes = <<>>

\* ---- the verification batch
\* C17: while a check of the batch is outstanding the search is still busy and
\* has published neither a result list nor an error; and a step changes at
\* most the slot of the check that settles in it, so a settled check keeps its
\* outcome, a pending one stays pending, whatever the other checks do.
C17_JoinOnAllChecks ==
  /\ [](PendingChecks # {} =>
          /\ searchPc = "verify"
          /\ isSearchingTopic
          /\ searchResults = Null
          /\ searchError = Null)
  /\ [][searchPc = "verify" =>
          \A i, j \in DOMAIN verification :
            (i # j /\ verification'[i] # verification[i]) =>
              verification'[j] = verification[j]]_vars
  /\ [][\A j \in DOMAIN verification :
          (verification[j].settled /\ searchPc = "verify") =>
            verification'[j] = verification[j]]_vars

\* The first of two checks has failed, the second is outstanding, and the
\* search is still busy.
C17_Witness ==
  /\ Len(verification) = 2
  /\ verification[1].settled
  /\ ~verification[1].isAccessible
  /\ ~verification[2].settled
  /\ isSearchingTopic
  /\ searchError = Null

\* ---- the target of a scrape
HasScheme(url) ==
  \/ startsWith(url, <<"h", "t", "t", "p", ":", "/", "/">>)
  \/ startsWith(url, <<"h", "t", "t", "p", "s", ":", "/", "/">>)

ExpectedTarget(url) ==
  IF HasScheme(url) THEN url ELSE <<"h", "t", "t", "p", "s", ":", "/", "/">> \o url

\* C18, as the claim states it: the URL fetched through the proxy, and recorded
\* in the data of a successful scrape, is the input when the input begins with
\* http:// or https://, and 'https://' followed by the input otherwise.
C18_SchemePrepended ==
  scrapePc # "idle" =>
    /\ scrapeRequest = Some(proxyRequest(ExpectedTarget(scrapeUrl)))
    /\ (scrapeResult # Null /\ scrapeResult[1].success) =>
         scrapeResult[1].data[1].url = ExpectedTarget(scrapeUrl)

\* ---- calls that never complete
ScrapeSettles == \E k \in DOMAIN appScrapes, r \in AppProxyBehaviours : AppScrapeSettled(k, r)

ChatSettles == \E k \in DOMAIN chatRequests, resp \in ChatResponses : ChatSettled(k, resp)

CheckSettles == \E i \in DOMAIN verification, r \in AppProxyBehaviours : VerifySettled(i, r)

\* C19: an operation whose call is outstanding stays busy and shows no error,
\* and nothing but the call's completion ends it. While a chat request is
\* outstanding isProcessing is true and the last message is no error reply; while
\* the search request or any check of the batch is outstanding isSearchingTopic
\* is true and neither an error nor a list is shown; while the scrape of the
\* only submit is outstanding the app is in SCRAPING without an error. The app
\* leaves SCRAPING only in a step where a scrape settles, isSearchingTopic
\* falls only where the search or a check settles or UrlInput is unmounted,
\* isProcessing falls only where the chat request settles or ChatInterface is
\* unmounted.
C19_HungCallStalls ==
  /\ [](/\ chatRequests # <<>> =>
             isProcessing /\ messages[Len(messages)].content # ChatErrorText
        /\ (searchPc = "search" \/ PendingChecks # {}) =>
             isSearchingTopic /\ searchError = Null /\ searchResults = Null
        /\ (uiVariant = "A" /\ appScrapes # <<>>) =>
             appState = "SCRAPING" /\ errorMessage = Null)
  /\ [][(appState = "SCRAPING" /\ appState' # "SCRAPING") => ScrapeSettles]_vars
  /\ [][(isSearchingTopic /\ ~isSearchingTopic') =>
          AppSearchSettled \/ CheckSettles \/ ScrapeSettles]_vars
  /\ [][(isProcessing /\ ~isProcessing') =>
          ChatSettles \/ ScrapeSettles \/ handleReset]_vars

\* One check of two has succeeded, the other is still outstanding, and a scrape
\* submitted from the URL form is outstanding too: the search is busy and the
\* app is in SCRAPING.
C19_Witness ==
  /\ Len(verification) = 2
  /\ verification[1].settled
  /\ verification[1].isAccessible
  /\ ~verification[2].settled
  /\ isSearchingTopic
  /\ searchResults = Null
  /\ appScrapes # <<>>
  /\ appState = "SCRAPING"

\* ---- the request of a turn
\* t is s without the whitespace at its two ends.
IsTrimOf(t, s) ==
  \E a, b \in 0..Len(s) :
    /\ a + Len(t) + b = Len(s)
    /\ SubSeq(s, a + 1, a + Len(t)) = t
    /\ \A i \in 1..a : IsSpace(s[i])
    /\ \A i \in (Len(s) - b + 1)..Len(s) : IsSpace(s[i])
    /\ t # <<>>
    /\ ~IsSpace(t[1])
    /\ ~IsSpace(t[Len(t)])

TurnsOf(msgs) == [i \in 1..Len(msgs) |-> Turn(msgs[i].role, msgs[i].content)]

\* C20: the step that sends a user message issues one request whose last turn
\* has role user and the text typed, without the whitespace around it; the
\* turns before it are the turns of the transcript as it was before the step,
\* in order, with or without the greeting in front.
C20_RequestEndsWithUserTurn ==
  [][SendMessage =>
       /\ Len(chatRequests') = Len(chatRequests) + 1
       /\ LET sent == upstreamTurns(chatRequests'[Len(chatRequests')])
          IN /\ sent # <<>>
             /\ sent[Len(sent)].role = "user"
             /\ IsTrimOf(sent[Len(sent)].text, inputValue)
             /\ SubSeq(sent, 1, Len(sent) - 1) \in {TurnsOf(messages), Tail(TurnsOf(messages))}]_vars

\* The second question, typed with blanks around it, is in flight after the
\* first one was answered by the model.
C20_Witness ==
  /\ Len(chatRequests) = 1
  /\ Len(messages) = 4
  /\ messages[3].content = <<"o", "k">>
  /\ messages[4].content = <<"r">>
  /\ upstreamTurns(chatRequests[1])[Len(upstreamTurns(chatRequests[1]))] = Turn("user", <<"r">>)

\* ------------------------------------------------------------------- C21
\* The user and model messages of a transcript, as turns.
SpokenTurns(msgs) ==
  {Turn(m.role, m.content) :
     m \in {msgs[i] : i \in {j \in DOMAIN msgs : msgs[j].role \in {"user", "model"}}}}

\* C21: whatever transcript getChatResponse is given, every turn of the history
\* it sends to the model (contents, or the history the chat is created with) is
\* a user or model message of that transcript with its own role; a system
\* message is left out and never sent under another role.
C21_NoSystemMessageUpstream ==
  (clientRequest # Null /\ clientCall[1].op = "getChatResponse")
    => \A i \in DOMAIN clientRequest[1].history :
         clientRequest[1].history[i] \in SpokenTurns(clientCall[1].messages)

\* ------------------------------------------------------------------- C22
\* C22: when every call in flight settles in the end, every operation that has
\* started finishes with its busy indicator cleared: a topic search with
\* isSearchingTopic false and no loading status, a URL submit with the app out
\* of SCRAPING in CHATTING or ERROR, a chat turn with isProcessing false.
C22_OperationsFinish ==
  /\ isSearchingTopic ~> (~isSearchingTopic /\ loadingStatus = <<>>)
  /\ (appState = "SCRAPING") ~> (appState \in {"CHATTING", "ERROR"})
  /\ isProcessing ~> ~isProcessing

\* A search whose candidates were all filtered out and a URL submit that failed
\* have both finished.
C22_Witness ==
  /\ appState = "ERROR"
  /\ appScrapes = <<>>
  /\ searchPc = "idle"
  /\ searchResponse.kind = "object"
  /\ searchError = Some(InaccessibleMessage(uiVariant))
  /\ ~isSearchingTopic
  /\ loadingStatus = <<>>

\* ------------------------------------------------------------------- C23
\* The page is what a successful extraction of url returns.
ExtractedFrom(page, url) ==
  \E r \in AppProxyBehaviours :
    \E result \in {scrapeWebsite(url, r, now)} :
      result.success /\ result.data = Some(page)

\* C23: in every state of the app, CHATTING implies that websiteData is set and
\* is the data of a successful extraction, and the app enters CHATTING or
\* changes the page only when the extraction of a submitted URL still in
\* flight succeeds (for a result card too: nothing of its check is reused);
\* ERROR implies a non-empty errorMessage; in IDLE, and so after a reset,
\* websiteData is null and errorMessage is undefined.
C23_AppStateInvariant ==
  /\ [](appState = "CHATTING" =>
          /\ websiteData # NoPage
          /\ \E url \in InputUrls \cup AppSearchUrls : ExtractedFrom(websiteData, url))
  /\ [](appState = "ERROR" => errorMessage # Null /\ errorMessage[1] # <<>>)
  /\ [](appState = "IDLE" => websiteData = NoPage /\ errorMessage = Null)
  /\ [][(appState' = "CHATTING" /\ (appState # "CHATTING" \/ websiteData' # websiteData))
          => \E k \in DOMAIN appScrapes :
               /\ ExtractedFrom(websiteData', appScrapes[k])
               /\ Len(appScrapes') = Len(appScrapes) - 1]_vars
  /\ [][(appState = "CHATTING" /\ appState' = "IDLE")
          => websiteData' = NoPage /\ errorMessage' = Null]_vars

\* A verified candidate was selected from the result list (the URL field is
\* empty, so the form's button is disabled) and its extraction failed.
C23_Witness ==
  /\ appState = "ERROR"
  /\ errorMessage = Some(<<"Failed to fetch">>)
  /\ inputUrl = <<>>
  /\ searchResults # Null
  /\ appScrapes = <<>>

\* ------------------------------------------------------------------- C24
\* The candidate was checked in the search that is over and found accessible.
PassedCheck(item) ==
  \E i \in DOMAIN verification :
    /\ uniqueResults[i] = item
    /\ verification[i].settled
    /\ verification[i].isAccessible

\* C24: whatever searches and resets have run, searchResults and searchError
\* are never both set, searchResults is never the empty list, every item on
\* show passed its accessibility check in the search that produced the list,
\* and the step that issues a search request leaves both results and error
\* cleared.
C24_ResultsAndErrorExclusive ==
  /\ [](~(searchResults # Null /\ searchError # Null))
  /\ [](searchResults # Null =>
          /\ searchResults[1] # <<>>
          /\ \A k \in DOMAIN searchResults[1] : PassedCheck(searchResults[1][k]))
  /\ [][(searchPc # "search" /\ searchPc' = "search")
          => searchResults' = Null /\ searchError' = Null]_vars

\* A list is on show from which the check removed a candidate.
C24_Witness ==
  /\ searchPc = "idle"
  /\ searchResults # Null
  /\ searchError = Null
  /\ Len(searchResults[1]) < Len(uniqueResults)
  /\ \E i \in DOMAIN verification : ~verification[i].isAccessible

\* ------------------------------------------------------------------- C25
\* Empty or made of whitespace only.
Blank(s) == \A i \in DOMAIN s : s[i] \in {" ", "\n", "\t"}

UserCount(msgs) == Cardinality({i \in DOMAIN msgs : msgs[i].role = "user"})

\* C25: a rejected input has no effect. While the chat input is blank or a turn
\* is being processed, no step appends a user message, issues a chat request,
\* raises isProcessing or clears the text typed; a scrape is only ever started
\* for a result card's URL or for the non-blank text of the URL field, with
\* the field left as typed; and while the topic form can be submitted and its
\* topic is blank, no step starts a search or touches the busy flag, the
\* loading status, the results or the error.
C25_RejectedInputsChangeNothing ==
  [][/\ (chatMounted /\ (Blank(inputValue) \/ isProcessing)) =>
          /\ Len(chatRequests') <= Len(chatRequests)
          /\ UserCount(messages') <= UserCount(messages)
          /\ isProcessing' => isProcessing
          /\ (chatMounted' /\ inputValue # <<>>) => inputValue' # <<>>
     /\ (Len(appScrapes') > Len(appScrapes)) =>
          /\ inputUrl' = inputUrl
          /\ \/ ~Blank(inputUrl) /\ appScrapes'[Len(appScrapes')] = inputUrl
             \/ /\ searchResults # Null
                /\ \E i \in DOMAIN searchResults[1] :
                     appScrapes'[Len(appScrapes')] = searchResults[1][i].url
     /\ (UrlInputShown' /\ Blank(topic) /\ canSubmitTopic) =>
          /\ searchPc' = searchPc
          /\ isSearchingTopic' = isSearchingTopic
          /\ loadingStatus' = loadingStatus
          /\ searchError' = searchError
          /\ searchResults' = searchResults]_vars

\* After a completed turn the user has typed whitespace into the chat input
\* and the handler refuses it.
C25_Witness ==
  /\ appState = "CHATTING"
  /\ chatMounted
  /\ Len(messages) = 3
  /\ ~isProcessing
  /\ inputValue = <<" ">>
  /\ sendRefused

\* ------------------------------------------------------------------- C26
\* The greeting for a page: one model message that names it.
IsGreetingFor(m, page) ==
  /\ m.role = "model"
  /\ m.content = <<"I have read **">> \o page.title
                   \o <<"**. \n\nWhat would you like to know?">>

\* C26: a reset discards the conversation. Outside CHATTING, and so from the
\* reset on, there is no transcript, no input text, no turn being processed and
\* no request whose reply could still arrive; the app enters CHATTING with
\* that empty chat, the first transcript shown is exactly the greeting for the
\* page just scraped, a transcript on show always starts with the greeting for
\* the page held, and every request issued is built from the turns of the
\* transcript on show.
C26_ResetDiscardsConversation ==
  /\ [](appState # "CHATTING" =>
          /\ messages = <<>>
          /\ chatRequests = <<>>
          /\ inputValue = <<>>
          /\ ~isProcessing
          /\ ~chatMounted)
  /\ [][(appState # "CHATTING" /\ appState' = "CHATTING") =>
          messages' = <<>> /\ chatRequests' = <<>> /\ ~chatMounted']_vars
  /\ [][(~chatMounted /\ chatMounted') =>
          Len(messages') = 1 /\ IsGreetingFor(messages'[1], websiteData')]_vars
  /\ [](chatMounted => IsGreetingFor(messages[1], websiteData))
  /\ [][(Len(chatRequests') > Len(chatRequests)) =>
          chatRequests'[Len(chatRequests')].history
            = [i \in DOMAIN messages' |-> Turn(messages'[i].role, messages'[i].content)]]_vars

\* A conversation was reset while a second scrape, submitted during the first,
\* is still in flight: the app is idle and nothing of the conversation is left.
C26_Witness ==
  /\ appState = "IDLE"
  /\ appScrapes # <<>>
  /\ messages = <<>>
  /\ chatRequests = <<>>

\* ------------------------------------------------------------------- C27
\* The two turns a session starts with: the user turn that carries the context
\* and the model's acknowledgement.
IsSeedFor(history, context) ==
  /\ Len(history) = 2
  /\ history[1].role = "user"
  /\ history[1].text =
       <<"Here is the website content you must use as your source of truth:\n\n=== BEGIN CONTENT ===\n">>
         \o context
         \o <<"\n=== END CONTENT ===\n\nPlease confirm you understand the instructions.">>
  /\ history[2].role = "model"
  /\ history[2].text # <<>>

\* C27: in the session-based service, sendMessage called while no session has
\* been initialized fails with the error "Chat session not initialized. Call
\* initializeChat first." and sends nothing upstream; a call of initializeChat,
\* the first or a later one, leaves a session of exactly two turns, the user
\* turn carrying the call's context and the model's acknowledgement, whatever
\* the session before it held.
C27_SessionLifecycle ==
  /\ []((clientCall # Null /\ clientCall[1].op = "sendMessage" /\ chatSession = Null) =>
          /\ clientRequest = Null
          /\ clientOutcome # Null
          /\ clientOutcome[1].result.threw
          /\ clientOutcome[1].result.message =
               <<"Chat session not initialized. Call initializeChat first.">>)
  /\ [][(clientRequest' # Null /\ clientRequest = Null
           /\ clientCall'[1].op = "sendMessage") => chatSession # Null]_vars
  /\ []((clientCall # Null /\ clientCall[1].op = "initializeChat") =>
          chatSession # Null /\ IsSeedFor(chatSession[1], clientCall[1].context))
  /\ [][(clientCall' # Null /\ clientCall'[1].op = "initializeChat") =>
          chatSession' # Null /\ IsSeedFor(chatSession'[1], clientCall'[1].context)]_vars

\* sendMessage was called on a service that has no session and threw.
C27_Witness ==
  /\ svcVariant = "session"
  /\ chatSession = Null
  /\ clientCall # Null
  /\ clientCall[1].op = "sendMessage"
  /\ clientOutcome # Null
  /\ clientOutcome[1].result.threw
  /\ clientRequest = Null

\* ------------------------------------------------------------------- C28
\* C28: the ids of the messages of a transcript are pairwise distinct, whenever
\* the messages were sent and the replies arrived.
C28_IdsDistinct ==
  \A i \in DOMAIN messages : \A j \in DOMAIN messages :
    i # j => messages[i].id # messages[j].id

====
